---------------------------- MODULE Spec2Model ----------------------------
(***************************************************************************)
(* A model of boggle.cpp: the adjacency predicate, the single-word path    *)
(* search (Findable), the validity gate (WordIsValid), the exhaustive      *)
(* enumeration (FindAllWords / ComputerTurn) and the game loop of main.    *)
(*                                                                         *)
(* A character is a one-character TLA+ string; a C++ string is a sequence  *)
(* of characters, so that substr, +=, == and ConvertToUpperCase act on it  *)
(* as they do in the program.  A Grid<string> is a record that carries its *)
(* own dimensions, as the Grid class does.                                 *)
(***************************************************************************)
EXTENDS Integers, Sequences, FiniteSets

VARIABLES pc, board, lex, wordsSeen, recorded, last, args, ret

vars == <<pc, board, lex, wordsSeen, recorded, last, args, ret>>

(***************************************************************************)
(* Bounds of the model.                                                    *)
(***************************************************************************)
\* dimensions of the board of the game and of the boards Findable is run on
NumRows == 2
NumCols == 3
\* dimensions of the boards the enumeration is run on with pruning disabled
EnumRows == 2
EnumCols == 2
\* AreNeighbors is called on coordinates -1 .. MaxCoord
MaxCoord == 3

Max(a, b) == IF a >= b THEN a ELSE b

(***************************************************************************)
(* Strings.                                                                *)
(***************************************************************************)
\* toupper on one character
ToUpperChar(c) ==
    CASE c = "a" -> "A"
      [] c = "b" -> "B"
      [] c = "q" -> "Q"
      [] c = "u" -> "U"
      [] c = "y" -> "Y"
      [] c = "e" -> "E"
      [] c = "s" -> "S"
      [] OTHER -> c

ConvertToUpperCase(s) == [k \in 1..Len(s) |-> ToUpperChar(s[k])]

\* s.substr(pos, n): at most n characters from 0-based position pos
substr(s, pos, n) == SubSeq(s, pos + 1, IF pos + n <= Len(s) THEN pos + n ELSE Len(s))

\* s.substr(pos): the rest of s from 0-based position pos
substrFrom(s, pos) == SubSeq(s, pos + 1, Len(s))

(***************************************************************************)
(* Grid<string>.                                                           *)
(***************************************************************************)
CellsOf(rows, cols) == (0..(rows - 1)) \X (0..(cols - 1))

\* Grid<string> board(rows, cols): every element a default (empty) string
Grid(rows, cols) ==
    [numRows |-> rows, numCols |-> cols,
     cell |-> [c \in CellsOf(rows, cols) |-> <<>>]]

At(b, i, j) == b.cell[<<i, j>>]

Cells(b) == CellsOf(b.numRows, b.numCols)

(***************************************************************************)
(* The lexicon: a set of upper-case words; both queries ignore case.       *)
(***************************************************************************)
containsWord(lx, s) == ConvertToUpperCase(s) \in lx

containsPrefix(lx, s) ==
    \E w \in lx : Len(s) <= Len(w) /\ SubSeq(w, 1, Len(s)) = ConvertToUpperCase(s)

(***************************************************************************)
(* Part 3: the player's turn.                                              *)
(***************************************************************************)
\* a mutation: the test of the column distance one way is missing
AreNeighbors_oneSided(row1, col1, row2, col2) ==
    IF row2 = -1 /\ col2 = -1 THEN TRUE
    ELSE IF row1 - row2 > 1 \/ row2 - row1 > 1 \/ col1 - col2 > 1 THEN FALSE
    ELSE IF row1 = row2 /\ col1 = col2 THEN FALSE
    ELSE TRUE

\* a mutation: a cube counts as its own neighbour
AreNeighbors_self(row1, col1, row2, col2) ==
    IF row2 = -1 /\ col2 = -1 THEN TRUE
    ELSE IF row1 - row2 > 1 \/ row2 - row1 > 1 \/ col1 - col2 > 1 \/ col2 - col1 > 1 THEN FALSE
    ELSE TRUE

\* a mutation: the sentinel is not recognised
AreNeighbors_noSentinel(row1, col1, row2, col2) ==
    IF row1 - row2 > 1 \/ row2 - row1 > 1 \/ col1 - col2 > 1 \/ col2 - col1 > 1 THEN FALSE
    ELSE IF row1 = row2 /\ col1 = col2 THEN FALSE
    ELSE TRUE

AreNeighbors(row1, col1, row2, col2) ==
    IF row2 = -1 /\ col2 = -1 THEN TRUE
    ELSE IF row1 - row2 > 1 \/ row2 - row1 > 1 \/ col1 - col2 > 1 \/ col2 - col1 > 1 THEN FALSE
    ELSE IF row1 = row2 /\ col1 = col2 THEN FALSE
    ELSE TRUE

\* a mutation: the scan of the locations starts at index 1
NotDuplicated_skipFirst(row, col, locations) ==
    \A i \in 2..Len(locations) :
        ~(locations[i].numRow = row /\ locations[i].numCol = col)

\* a mutation: only the latest location is compared
NotDuplicated_lastOnly(row, col, locations) ==
    \/ Len(locations) = 0
    \/ ~(locations[Len(locations)].numRow = row /\ locations[Len(locations)].numCol = col)

NotDuplicated(row, col, locations) ==
    \A i \in 1..Len(locations) :
        ~(locations[i].numRow = row /\ locations[i].numCol = col)

locationT(row, col) == [numRow |-> row, numCol |-> col]

(***************************************************************************)
(* Findable.  acc is the answers vector (passed by reference) together     *)
(* with the length of the longest locations vector any call received,      *)
(* which is the number of recursive calls on the stack at that call.       *)
(*                                                                         *)
(* FindableScan is the double loop over the board restricted to the cells  *)
(* k = i*numCols + j with lo <= k < hi, visited in row-major order; the    *)
(* range is halved so that the evaluation nests logarithmically, and the   *)
(* test on left.depth makes TLC finish the left half before the right one  *)
(* starts.  A cell that matches is added to locations and removed again    *)
(* after the recursive call (a match needs a non-empty word, so the        *)
(* removal always happens): every iteration sees the call's own locations. *)
(***************************************************************************)
RECURSIVE Findable(_, _, _, _, _, _), FindableScan(_, _, _, _, _, _, _, _)

FindableScan(b, word, row, col, locations, acc, lo, hi) ==
    IF hi - lo = 1
    THEN LET i == lo \div b.numCols
             j == lo % b.numCols
         IN  IF /\ At(b, i, j) = substr(word, 0, 1)
                /\ AreNeighbors(i, j, row, col)
                /\ NotDuplicated(i, j, locations)
             THEN Findable(b, substrFrom(word, 1), i, j,
                           Append(locations, locationT(i, j)), acc)
             ELSE acc
    ELSE LET mid == (lo + hi) \div 2
             left == FindableScan(b, word, row, col, locations, acc, lo, mid)
         IN  IF left.depth >= 0
             THEN FindableScan(b, word, row, col, locations, left, mid, hi)
             ELSE left

Findable(b, word0, row, col, locations, acc) ==
    LET word == ConvertToUpperCase(word0)
        depth == Max(acc.depth, Len(locations))
    IN  IF Len(word) = 0
        THEN FindableScan(b, word, row, col, locations,
                 [answers |-> Append(acc.answers, locations), depth |-> depth],
                 0, b.numRows * b.numCols)
        ELSE FindableScan(b, word, row, col, locations,
                 [answers |-> acc.answers, depth |-> depth],
                 0, b.numRows * b.numCols)

NoAnswers == [answers |-> <<>>, depth |-> 0]

\* Findable(board, word, -1, -1, empty, results) as WordIsValid calls it
Trace(b, word) == Findable(b, word, -1, -1, <<>>, NoAnswers)

\* a mutation: words of three letters pass
WordIsValid_short(word, b, lx, seen) ==
    IF Len(word) < 3 THEN FALSE
    ELSE IF word \in seen THEN FALSE
    ELSE IF ~containsWord(lx, word) THEN FALSE
    ELSE Len(Trace(b, word).answers) # 0

WordIsValid(word, b, lx, seen) ==
    IF Len(word) < 4 THEN FALSE
    ELSE IF word \in seen THEN FALSE
    ELSE IF ~containsWord(lx, word) THEN FALSE
    ELSE Len(Trace(b, word).answers) # 0

(***************************************************************************)
(* Part 4: the computer's turn.  st is what the calls share: wordsSeen     *)
(* (by reference), the calls of RecordWordForPlayer so far, and the        *)
(* length of the longest visited vector, which is the number of            *)
(* FindAllWords calls on the stack.  prune = TRUE is the function as       *)
(* written; prune = FALSE is the function without its early return on      *)
(* containsPrefix.                                                         *)
(***************************************************************************)
RECURSIVE FindAllWords(_, _, _, _, _, _, _, _), FindAllWordsScan(_, _, _, _, _, _, _, _, _, _)

\* the double loop of FindAllWords over the cells lo <= k < hi, halved like FindableScan
FindAllWordsScan(row, col, b, lx, st, soFar, visited, prune, lo, hi) ==
    IF hi - lo = 1
    THEN LET i == lo \div b.numCols
             j == lo % b.numCols
         IN  IF AreNeighbors(row, col, i, j) /\ NotDuplicated(i, j, visited)
             THEN FindAllWords(i, j, b, lx, st, soFar, visited, prune)
             ELSE st
    ELSE LET mid == (lo + hi) \div 2
             left == FindAllWordsScan(row, col, b, lx, st, soFar, visited, prune, lo, mid)
         IN  IF left.depth >= 0
             THEN FindAllWordsScan(row, col, b, lx, left, soFar, visited, prune, mid, hi)
             ELSE left

\* a mutation: only words of more than 4 letters are recorded
FindAllWords_fiveLetters(row, col, b, lx, st, soFar0, visited0, prune) ==
    LET visited == Append(visited0, locationT(row, col))
        soFar == soFar0 \o At(b, row, col)
        st1 == [st EXCEPT !.depth = Max(@, Len(visited))]
    IN  IF prune /\ ~containsPrefix(lx, soFar) THEN st1
        ELSE IF containsWord(lx, soFar) /\ soFar \notin st1.wordsSeen /\ Len(soFar) > 4
        THEN FindAllWordsScan(row, col, b, lx,
                 [st1 EXCEPT !.recorded = Append(@, [word |-> soFar, player |-> "Computer"]),
                             !.wordsSeen = @ \cup {soFar}],
                 soFar, visited, prune, 0, b.numRows * b.numCols)
        ELSE FindAllWordsScan(row, col, b, lx, st1, soFar, visited, prune,
                 0, b.numRows * b.numCols)

\* a mutation: the early return tests containsWord
FindAllWords_pruneNonWords(row, col, b, lx, st, soFar0, visited0, prune) ==
    LET visited == Append(visited0, locationT(row, col))
        soFar == soFar0 \o At(b, row, col)
        st1 == [st EXCEPT !.depth = Max(@, Len(visited))]
    IN  IF prune /\ ~containsWord(lx, soFar) THEN st1
        ELSE IF containsWord(lx, soFar) /\ soFar \notin st1.wordsSeen /\ Len(soFar) > 3
        THEN FindAllWordsScan(row, col, b, lx,
                 [st1 EXCEPT !.recorded = Append(@, [word |-> soFar, player |-> "Computer"]),
                             !.wordsSeen = @ \cup {soFar}],
                 soFar, visited, prune, 0, b.numRows * b.numCols)
        ELSE FindAllWordsScan(row, col, b, lx, st1, soFar, visited, prune,
                 0, b.numRows * b.numCols)

\* a mutation: wordsSeen is not consulted before recording
FindAllWords_noSeenCheck(row, col, b, lx, st, soFar0, visited0, prune) ==
    LET visited == Append(visited0, locationT(row, col))
        soFar == soFar0 \o At(b, row, col)
        st1 == [st EXCEPT !.depth = Max(@, Len(visited))]
    IN  IF prune /\ ~containsPrefix(lx, soFar) THEN st1
        ELSE IF containsWord(lx, soFar) /\ Len(soFar) > 3
        THEN FindAllWordsScan(row, col, b, lx,
                 [st1 EXCEPT !.recorded = Append(@, [word |-> soFar, player |-> "Computer"]),
                             !.wordsSeen = @ \cup {soFar}],
                 soFar, visited, prune, 0, b.numRows * b.numCols)
        ELSE FindAllWordsScan(row, col, b, lx, st1, soFar, visited, prune,
                 0, b.numRows * b.numCols)

FindAllWords(row, col, b, lx, st, soFar0, visited0, prune) ==
    LET visited == Append(visited0, locationT(row, col))
        soFar == soFar0 \o At(b, row, col)
        st1 == [st EXCEPT !.depth = Max(@, Len(visited))]
    IN  IF prune /\ ~containsPrefix(lx, soFar) THEN st1
        ELSE IF containsWord(lx, soFar) /\ soFar \notin st1.wordsSeen /\ Len(soFar) > 3
        THEN FindAllWordsScan(row, col, b, lx,
                 [st1 EXCEPT !.recorded = Append(@, [word |-> soFar, player |-> "Computer"]),
                             !.wordsSeen = @ \cup {soFar}],
                 soFar, visited, prune, 0, b.numRows * b.numCols)
        ELSE FindAllWordsScan(row, col, b, lx, st1, soFar, visited, prune,
                 0, b.numRows * b.numCols)

RECURSIVE ComputerTurnScan(_, _, _, _, _, _)

\* the double loop of ComputerTurn over the cells lo <= k < hi
ComputerTurnScan(b, lx, st, prune, lo, hi) ==
    IF hi - lo = 1
    THEN FindAllWords(lo \div b.numCols, lo % b.numCols, b, lx, st, <<>>, <<>>, prune)
    ELSE LET mid == (lo + hi) \div 2
             left == ComputerTurnScan(b, lx, st, prune, lo, mid)
         IN  IF left.depth >= 0
             THEN ComputerTurnScan(b, lx, left, prune, mid, hi)
             ELSE left

ComputerTurn(b, lx, seen, rec, prune) ==
    ComputerTurnScan(b, lx, [wordsSeen |-> seen, recorded |-> rec, depth |-> 0],
                     prune, 0, b.numRows * b.numCols)

(***************************************************************************)
(* Part 2: setting up the board.                                           *)
(***************************************************************************)
StandardCubes ==
    << <<"A", "A", "E", "E", "G", "N">>,
       <<"A", "B", "B", "J", "O", "O">>,
       <<"A", "C", "H", "O", "P", "S">>,
       <<"A", "F", "F", "K", "P", "S">>,
       <<"A", "O", "O", "T", "T", "W">>,
       <<"C", "I", "M", "O", "T", "U">>,
       <<"D", "E", "I", "L", "R", "X">>,
       <<"D", "E", "L", "R", "V", "Y">>,
       <<"D", "I", "S", "T", "T", "Y">>,
       <<"E", "E", "G", "H", "N", "W">>,
       <<"E", "E", "I", "N", "S", "U">>,
       <<"E", "H", "R", "T", "V", "W">>,
       <<"E", "I", "O", "S", "S", "T">>,
       <<"E", "L", "R", "T", "T", "Y">>,
       <<"H", "I", "M", "N", "Q", "U">>,
       <<"H", "L", "N", "N", "R", "Z">> >>

\* the cell with row-major index k of a grid with cols columns
CellAt(cols, k) == <<k \div cols, k % cols>>

RECURSIVE SwapLetters(_, _, _, _)

\* the second loop of InitializeBoard from cell k on: cell k is swapped with swaps[k]
SwapLetters(b, swaps, k, n) ==
    IF k >= n THEN b
    ELSE LET here == CellAt(b.numCols, k)
             there == swaps[k]
             s1 == b.cell[here]
             s2 == b.cell[there]
             b1 == [b EXCEPT !.cell[here] = s2]
         IN  SwapLetters([b1 EXCEPT !.cell[there] = s1], swaps, k + 1, n)

\* faces[k] is the RandomInteger(0,5) drawn for cell k, swaps[k] its (RandRow, RandCol)
InitializeBoard(b, faces, swaps) ==
    LET n == b.numRows * b.numCols
        lettered == [b EXCEPT !.cell = [c \in Cells(b) |->
                        << StandardCubes[c[1] * b.numCols + c[2] + 1][faces[c[1] * b.numCols + c[2]] + 1] >>]]
    IN  SwapLetters(lettered, swaps, 0, n)

\* the board once a line of more than 15 characters has been entered
UserConfigureBoard(b, line) ==
    LET upper == ConvertToUpperCase(line)
        config == IF Len(upper) > 16 THEN substr(upper, 0, 16) ELSE upper
    IN  [b EXCEPT !.cell = [c \in Cells(b) |-> << config[c[1] * b.numCols + c[2] + 1] >>]]

\* a mutation: wordsSeen is overwritten by the word
putWordOnBoard_overwrite(word, seen, rec) ==
    [wordsSeen |-> {word},
     recorded |-> Append(rec, [word |-> word, player |-> "Human"])]

putWordOnBoard(word, seen, rec) ==
    [wordsSeen |-> seen \cup {word},
     recorded |-> Append(rec, [word |-> word, player |-> "Human"])]

(***************************************************************************)
(* What the model feeds the program.                                       *)
(***************************************************************************)
\* the pattern repeated up to n characters
Repeat(pattern, n) == [k \in 1..n |-> pattern[((k - 1) % Len(pattern)) + 1]]

\* lexicon.dat
Lexicons ==
    { { <<"A","B","B">>, <<"A","B","B","A">>, <<"A","B","A","B">>, <<"B","A","B","A","B">> },
      { <<"A","A","A","A">>, <<"B","A","A","B">>, <<"A","A","A">> },
      {} }

\* the lines typed at "Please enter your configuration"
ConfigLines ==
    { Repeat(<<"A","B">>, 16), Repeat(<<"a","b","b">>, 16), Repeat(<<"A","A","B">>, 17),
      Repeat(<<"B","A","b","a","B">>, 20), Repeat(<<"A">>, 16), Repeat(<<"A","B">>, 15) }

\* the RandomInteger(0,5) drawn for each cell in the first loop of InitializeBoard
FaceDraws(n) == { [k \in 0..(n - 1) |-> 0], [k \in 0..(n - 1) |-> k % 6] }

\* the (RandRow, RandCol) drawn for each cell in its second loop
SwapDraws(rows, cols) ==
    { [k \in 0..(rows * cols - 1) |-> CellAt(cols, k)],
      [k \in 0..(rows * cols - 1) |-> <<0, 0>>],
      [k \in 0..(rows * cols - 1) |-> CellAt(cols, rows * cols - 1 - k)] }

\* the lines typed at "Please enter a word found in the puzzle"
InputLines ==
    { <<>>, <<"a","b","b","a">>, <<"A","B","A","B">>, <<"A","B","B">>,
      <<"A","A","A","A">>, <<"A","B","B","B">>, <<"B","A","A","B">> }

\* the answers to "Would you like to configure the board?" and "... play again?"
Responses == { <<"Y","E","S">>, <<"y","e","s">>, <<"N","O">>, <<>> }

YES == <<"Y","E","S">>

(***************************************************************************)
(* The game: main.  pc is the place in main's loop.  recorded is the       *)
(* sequence of RecordWordForPlayer calls of the current game, last the     *)
(* latest word PlayerTurn passed to WordIsValid with the answer it got,    *)
(* args the wordsSeen that the latest ComputerTurn call was given.         *)
(***************************************************************************)
NoSubmission == [word |-> <<>>, ok |-> FALSE]

Init ==
    /\ pc = "setup"
    /\ board = Grid(NumRows, NumCols)
    /\ lex \in Lexicons
    /\ wordsSeen = {}
    /\ recorded = <<>>
    /\ last = NoSubmission
    /\ args = {}
    /\ ret = 0

\* the answer is YES and UserConfigureBoard reads lines until one is long enough
ConfigureBoard ==
    /\ pc = "setup"
    /\ \E response \in Responses, line \in ConfigLines :
          /\ ConvertToUpperCase(response) = YES
          /\ Len(ConvertToUpperCase(line)) > 15
          /\ board' = UserConfigureBoard(board, line)
    /\ pc' = "human"
    /\ UNCHANGED <<lex, wordsSeen, recorded, last, args, ret>>

\* any other answer: InitializeBoard
RandomBoard ==
    /\ pc = "setup"
    /\ \E response \in Responses,
          faces \in FaceDraws(board.numRows * board.numCols),
          swaps \in SwapDraws(board.numRows, board.numCols) :
          /\ ConvertToUpperCase(response) # YES
          /\ board' = InitializeBoard(board, faces, swaps)
    /\ pc' = "human"
    /\ UNCHANGED <<lex, wordsSeen, recorded, last, args, ret>>

\* one iteration of PlayerTurn's loop on a non-empty line
PlayerSubmit ==
    /\ pc = "human"
    /\ \E line \in InputLines :
          LET word == ConvertToUpperCase(line)
          IN  /\ word # <<>>
              /\ IF WordIsValid(word, board, lex, wordsSeen)
                 THEN LET put == putWordOnBoard(word, wordsSeen, recorded)
                      IN  /\ wordsSeen' = put.wordsSeen
                          /\ recorded' = put.recorded
                          /\ last' = [word |-> word, ok |-> TRUE]
                 ELSE /\ last' = [word |-> word, ok |-> FALSE]
                      /\ UNCHANGED <<wordsSeen, recorded>>
    /\ UNCHANGED <<pc, board, lex, args, ret>>

\* the empty line ends PlayerTurn
PlayerFinish ==
    /\ pc = "human"
    /\ \E line \in InputLines : ConvertToUpperCase(line) = <<>>
    /\ pc' = "computer"
    /\ last' = NoSubmission
    /\ UNCHANGED <<board, lex, wordsSeen, recorded, args, ret>>

ComputerPlays ==
    /\ pc = "computer"
    /\ LET st == ComputerTurn(board, lex, wordsSeen, recorded, TRUE)
       IN  /\ wordsSeen' = st.wordsSeen
           /\ recorded' = st.recorded
           /\ ret' = st.depth
    /\ args' = wordsSeen
    /\ pc' = "again"
    /\ UNCHANGED <<board, lex, last>>

\* YES: the loop of main starts over with a new wordsSeen, lexicon and board
PlayAgain ==
    /\ pc = "again"
    /\ \E response \in Responses : ConvertToUpperCase(response) = YES
    /\ pc' = "setup"
    /\ wordsSeen' = {}
    /\ board' = Grid(NumRows, NumCols)
    /\ recorded' = <<>>
    /\ UNCHANGED <<lex, last, args, ret>>

Quit ==
    /\ pc = "again"
    /\ \E response \in Responses : ConvertToUpperCase(response) # YES
    /\ pc' = "exit"
    /\ UNCHANGED <<board, lex, wordsSeen, recorded, last, args, ret>>

Next ==
    \/ ConfigureBoard
    \/ RandomBoard
    \/ PlayerSubmit
    \/ PlayerFinish
    \/ ComputerPlays
    \/ PlayAgain
    \/ Quit

Spec == Init /\ [][Next]_vars

(***************************************************************************)
(* AreNeighbors on its own: every call on coordinates in -1 .. MaxCoord.   *)
(* args is the argument list of the latest call, ret what it returned.     *)
(***************************************************************************)
Coords == (-1)..MaxCoord

InitNeighbors ==
    /\ pc = "unit"
    /\ board = Grid(NumRows, NumCols)
    /\ lex = {}
    /\ wordsSeen = {}
    /\ recorded = <<>>
    /\ last = NoSubmission
    /\ args = <<0, 0, 0, 0>>
    /\ ret = FALSE

CallAreNeighbors ==
    /\ pc \in {"unit", "called"}
    /\ \E row1 \in Coords, col1 \in Coords, row2 \in Coords, col2 \in Coords :
          /\ args' = <<row1, col1, row2, col2>>
          /\ ret' = AreNeighbors(row1, col1, row2, col2)
    /\ pc' = "called"
    /\ UNCHANGED <<board, lex, wordsSeen, recorded, last>>

SpecNeighbors == InitNeighbors /\ [][CallAreNeighbors]_vars

(***************************************************************************)
(* Findable on its own: one call, seeded as WordIsValid seeds it, on a     *)
(* board whose tokens may have more than one character.  args is the word  *)
(* of the call, ret the answers and the depth the call ended with.         *)
(***************************************************************************)
\* the grid whose cells hold the pattern repeated in row-major order
PatternBoard(rows, cols, pattern) ==
    [numRows |-> rows, numCols |-> cols,
     cell |-> [c \in CellsOf(rows, cols) |-> pattern[((c[1] * cols + c[2]) % Len(pattern)) + 1]]]

PatternsOver(tokens) ==
    UNION { [1..n -> tokens] : n \in 1..3 }

TraceTokens == { <<"A">>, <<"B">>, <<"Q","U">> }

TraceBoards == { PatternBoard(NumRows, NumCols, p) : p \in PatternsOver(TraceTokens) }

TraceWords ==
    { <<>>, <<"A">>, <<"B","A">>, <<"A","B","A">>, <<"A","B","A","B">>, <<"a","b","b","a">>,
      <<"B","A","B","A","B">>, <<"A","A","A","A">>, <<"A","A","A","A","A">>,
      <<"Q","U","A">>, <<"A","Q","U","A">>, <<"B","q","u","A","B">>, <<"Q">>, <<"A","B","B","B","A">> }

InitTrace ==
    /\ pc = "ready"
    /\ board \in TraceBoards
    /\ lex = {}
    /\ wordsSeen = {}
    /\ recorded = <<>>
    /\ last = NoSubmission
    /\ args \in TraceWords
    /\ ret = NoAnswers

CallFindable ==
    /\ pc = "ready"
    /\ ret' = Trace(board, args)
    /\ pc' = "traced"
    /\ UNCHANGED <<board, lex, wordsSeen, recorded, last, args>>

SpecTrace == InitTrace /\ [][CallFindable]_vars

(***************************************************************************)
(* ComputerTurn on its own, as written and with the early return of        *)
(* FindAllWords disabled, and Findable on the same boards.  wordsSeen is   *)
(* the set the call is given; args is the prune flag (or the word traced), *)
(* ret what the call left behind.                                          *)
(***************************************************************************)
EnumPatterns ==
    { <<<<"A">>>>, <<<<"A">>, <<"B">>>>, <<<<"B">>, <<"A">>>>, <<<<"A">>, <<"A">>, <<"B">>>>,
      <<<<"A">>, <<"B">>, <<"B">>>>, <<<<"B">>, <<"B">>, <<"A">>>>, <<<<"B">>, <<"A">>, <<"A">>>> }

EnumBoards == { PatternBoard(EnumRows, EnumCols, p) : p \in EnumPatterns }

EnumClaimed == { {}, { <<"A","B","B","A">> }, { <<"A","A","A","A">>, <<"B","B","B","B">> } }

EnumWords == { <<"A","B","B","A">>, <<"a","a","a","a">>, <<"B","A","B","A","B">>, <<"A","B">> }

InitEnum ==
    /\ pc = "ready"
    /\ board \in EnumBoards
    /\ lex \in Lexicons
    /\ wordsSeen \in EnumClaimed
    /\ recorded = <<>>
    /\ last = NoSubmission
    /\ args = FALSE
    /\ ret = NoAnswers

CallComputerTurn ==
    /\ pc = "ready"
    /\ \E prune \in BOOLEAN :
          /\ args' = prune
          /\ ret' = ComputerTurn(board, lex, wordsSeen, recorded, prune)
    /\ pc' = "enumerated"
    /\ UNCHANGED <<board, lex, wordsSeen, recorded, last>>

CallTrace ==
    /\ pc = "ready"
    /\ \E word \in EnumWords :
          /\ args' = word
          /\ ret' = Trace(board, word)
    /\ pc' = "traced"
    /\ UNCHANGED <<board, lex, wordsSeen, recorded, last>>

NextEnum == CallComputerTurn \/ CallTrace

SpecEnum == InitEnum /\ [][NextEnum]_vars

(***************************************************************************)
(* What the properties are stated with.                                    *)
(***************************************************************************)
\* two cells are adjacent: different, at most one row and one column apart
Adjacent(a, c) ==
    /\ a # c
    /\ a[1] - c[1] \in {-1, 0, 1}
    /\ a[2] - c[2] \in {-1, 0, 1}

IsPrefix(t, w) == Len(t) <= Len(w) /\ SubSeq(w, 1, Len(t)) = t

RECURSIVE PathFrom(_, _, _, _)

\* some path of distinct, consecutively adjacent cells outside used starts at
\* cell c and its tokens, concatenated, are the word w
PathFrom(b, w, c, used) ==
    LET t == b.cell[c]
    IN  /\ Len(t) > 0
        /\ IsPrefix(t, w)
        /\ \/ Len(t) = Len(w)
           \/ \E d \in Cells(b) \ (used \cup {c}) :
                 Adjacent(c, d) /\ PathFrom(b, substrFrom(w, Len(t)), d, used \cup {c})

\* some sequence of distinct, consecutively adjacent cells spells w
Spells(b, w) == w = <<>> \/ \E c \in Cells(b) : PathFrom(b, w, c, {})

RECURSIVE Spelled(_, _)

\* the tokens along a vector of locations, concatenated
Spelled(b, path) ==
    IF path = <<>> THEN <<>>
    ELSE At(b, path[1].numRow, path[1].numCol) \o Spelled(b, Tail(path))

OneCharTokens(b) == \A c \in Cells(b) : Len(b.cell[c]) = 1

\* the words RecordWordForPlayer was called with for a player
WordsOf(rec, player) == { rec[k].word : k \in { n \in 1..Len(rec) : rec[n].player = player } }

InRange(x) == x \in 0..MaxCoord

(***************************************************************************)
(* C1.  Enumeration/Tracing agreement: when the computer's turn is over,   *)
(* the words recorded for the computer are exactly the (upper-case) words  *)
(* for which Findable seeded with the sentinel returns a path, that the    *)
(* lexicon contains, that have at least 4 letters and that were not in     *)
(* wordsSeen when the turn began.                                          *)
(***************************************************************************)
C1_Agreement ==
    pc = "again" =>
        WordsOf(recorded, "Computer") =
            { w \in lex \cup WordsOf(recorded, "Computer") :
                /\ Len(Trace(board, w).answers) > 0
                /\ containsWord(lex, w)
                /\ Len(w) >= 4
                /\ w \notin args }

\* the computer has found a word, the human had claimed another, and the lexicon
\* holds a long word with no path and a traceable word that is too short
C1_Witness ==
    /\ pc = "again"
    /\ WordsOf(recorded, "Computer") # {}
    /\ args # {}
    /\ \E w \in lex : Len(w) >= 4 /\ Len(Trace(board, w).answers) = 0
    /\ \E w \in lex : Len(w) < 4 /\ Len(Trace(board, w).answers) > 0

(***************************************************************************)
(* C2.  WordIsValid answers true exactly when the word has at least 4      *)
(* letters, is not in wordsSeen, is in the lexicon, and some path on the   *)
(* board spells it; every step of PlayerTurn gets such an answer.          *)
(***************************************************************************)
C2_Gate ==
    [][ (pc = "human" /\ pc' = "human") =>
            (last'.ok <=> /\ Len(last'.word) >= 4
                          /\ last'.word \notin wordsSeen
                          /\ containsWord(lex, last'.word)
                          /\ Spells(board, last'.word)) ]_vars

\* a word was accepted, and later a word of the lexicon with 4 letters was
\* rejected only for having no path
C2_Witness ==
    /\ pc = "human"
    /\ wordsSeen # {}
    /\ ~last.ok
    /\ Len(last.word) >= 4
    /\ last.word \notin wordsSeen
    /\ containsWord(lex, last.word)

(***************************************************************************)
(* C3.  Path tracing is complete, as stated: on every board of non-empty   *)
(* tokens, Findable seeded with the sentinel returns an answer exactly     *)
(* when some sequence of distinct, consecutively adjacent cells has tokens *)
(* that concatenate to the word (as Findable reads it, in upper case).     *)
(***************************************************************************)
C3_Complete ==
    pc = "traced" => (Len(ret.answers) > 0 <=> Spells(board, ConvertToUpperCase(args)))

(***************************************************************************)
(* C3, amended.  On every board whose tokens have exactly one character,   *)
(* Findable seeded with the sentinel returns an answer exactly when some   *)
(* sequence of distinct, consecutively adjacent cells has tokens that      *)
(* concatenate to the upper-cased word.                                    *)
(***************************************************************************)
C3_CompleteOneChar ==
    (pc = "traced" /\ OneCharTokens(board)) =>
        (Len(ret.answers) > 0 <=> Spells(board, ConvertToUpperCase(args)))

\* a word of five letters was found on a board of one-character tokens
C3_Witness ==
    /\ pc = "traced"
    /\ OneCharTokens(board)
    /\ Len(args) = 5
    /\ Len(ret.answers) > 0

(***************************************************************************)
(* C4.  Path tracing is sound: no answer of Findable repeats a coordinate, *)
(* and the tokens along each answer concatenate to the upper-cased word.   *)
(***************************************************************************)
C4_Sound ==
    pc = "traced" =>
        \A n \in 1..Len(ret.answers) :
            LET path == ret.answers[n]
            IN  /\ \A x, y \in 1..Len(path) : x # y => path[x] # path[y]
                /\ Spelled(board, path) = ConvertToUpperCase(args)

\* several answers were returned for a word typed in lower case
C4_Witness ==
    /\ pc = "traced"
    /\ Len(ret.answers) > 1
    /\ Len(args) >= 4
    /\ args # ConvertToUpperCase(args)

(***************************************************************************)
(* C5.  Prefix-pruning equivalence: ComputerTurn without the early return  *)
(* on containsPrefix records the same set of words and leaves the same     *)
(* wordsSeen as ComputerTurn as written.                                   *)
(***************************************************************************)
C5_PruningEquivalence ==
    (pc = "enumerated" /\ args = FALSE) =>
        LET pruned == ComputerTurn(board, lex, wordsSeen, recorded, TRUE)
        IN  /\ WordsOf(ret.recorded, "Computer") = WordsOf(pruned.recorded, "Computer")
            /\ ret.wordsSeen = pruned.wordsSeen

\* the unpruned turn recorded a word, skipped a claimed one, and the lexicon
\* rules out the letters of two adjacent cells as a prefix
C5_Witness ==
    /\ pc = "enumerated"
    /\ args = FALSE
    /\ Len(ret.recorded) > 0
    /\ wordsSeen \cap lex # {}
    /\ \E c, d \in Cells(board) :
          Adjacent(c, d) /\ ~containsPrefix(lex, board.cell[c] \o board.cell[d])

(***************************************************************************)
(* C6.  For in-range coordinates AreNeighbors(a, b) is true exactly when   *)
(* a # b and both distances are at most 1; it is symmetric, and false on   *)
(* (a, a).                                                                 *)
(***************************************************************************)
C6_Adjacency ==
    (pc = "called" /\ \A n \in 1..4 : InRange(args[n])) =>
        /\ ret = Adjacent(<<args[1], args[2]>>, <<args[3], args[4]>>)
        /\ ret = AreNeighbors(args[3], args[4], args[1], args[2])
        /\ (args[1] = args[3] /\ args[2] = args[4]) => ~ret

\* a diagonal neighbour
C6_Witness ==
    /\ pc = "called"
    /\ args = <<1, 2, 2, 1>>
    /\ ret = TRUE

(***************************************************************************)
(* C7.  Sentinel universality, as stated: AreNeighbors(sentinel, x) is     *)
(* true for every in-range cell x.                                         *)
(***************************************************************************)
C7_SentinelFirst ==
    (pc = "called" /\ args[1] = -1 /\ args[2] = -1 /\ InRange(args[3]) /\ InRange(args[4]))
        => ret = TRUE

(***************************************************************************)
(* C7, amended.  AreNeighbors(x, sentinel) is true for every in-range cell *)
(* x: the sentinel is recognised as the second coordinate pair, the place  *)
(* at which Findable passes the previous cell.                             *)
(***************************************************************************)
C7_SentinelSecond ==
    (pc = "called" /\ InRange(args[1]) /\ InRange(args[2]) /\ args[3] = -1 /\ args[4] = -1)
        => ret = TRUE

\* the cell furthest from (-1,-1) against the sentinel
C7_Witness ==
    /\ pc = "called"
    /\ args = <<MaxCoord, MaxCoord, -1, -1>>
    /\ ret = TRUE

(***************************************************************************)
(* C8.  No word is credited twice in one game: RecordWordForPlayer is      *)
(* called at most once per word, and a submission of a word already in     *)
(* wordsSeen is rejected and records nothing.                              *)
(***************************************************************************)
C8_NoDoubleCredit ==
    /\ [](\A x, y \in 1..Len(recorded) : x # y => recorded[x].word # recorded[y].word)
    /\ [][ (pc = "human" /\ pc' = "human" /\ last'.word \in wordsSeen) =>
               (~last'.ok /\ recorded' = recorded) ]_vars

\* the game is over with words of both players, one of the computer's has
\* several paths, and the human's word has a path too
C8_Witness ==
    /\ pc = "again"
    /\ WordsOf(recorded, "Human") # {}
    /\ \E w \in WordsOf(recorded, "Computer") : Len(Trace(board, w).answers) > 1
    /\ \A w \in WordsOf(recorded, "Human") : Len(Trace(board, w).answers) > 0

(***************************************************************************)
(* C9.  wordsSeen only grows within a game, a rejected submission leaves   *)
(* it unchanged, it is empty when a game is set up, and it shrinks only    *)
(* when main's loop starts over.                                           *)
(***************************************************************************)
C9_Lifecycle ==
    /\ [](pc = "setup" => wordsSeen = {})
    /\ [][ /\ pc \in {"setup", "human", "computer"} => wordsSeen \subseteq wordsSeen'
           /\ (pc = "human" /\ pc' = "human" /\ ~last'.ok) => wordsSeen' = wordsSeen
           /\ ~(wordsSeen \subseteq wordsSeen') => (pc = "again" /\ pc' = "setup") ]_vars

\* a new game is being set up after one in which the human had claimed words
C9_Witness ==
    /\ pc = "setup"
    /\ Cardinality(args) > 1
    /\ wordsSeen = {}

(***************************************************************************)
(* C10.  Both searches end: a Findable call returns having nested at most  *)
(* Len(word) recursive calls, and ComputerTurn returns, with or without    *)
(* the early return on containsPrefix, having had at most as many          *)
(* FindAllWords calls on the stack as the board has cells.                 *)
(***************************************************************************)
C10_Depth ==
    /\ pc = "traced" => ret.depth <= Len(args)
    /\ pc = "enumerated" => ret.depth <= board.numRows * board.numCols

\* without pruning some path went through every cell of the board
C10_Witness ==
    /\ pc = "enumerated"
    /\ args = FALSE
    /\ ret.depth = board.numRows * board.numCols

=============================================================================
